---- MODULE Spec2Model ----
(***************************************************************************)
(* Verification model of three pieces of the pipedream components:         *)
(*   - reddit.app.mjs: _isRetriableStatusCode / _withRetries (the wrapper  *)
(*     around every Reddit API call) and getAllSearchSubredditsResults;    *)
(*   - hubspot new-form-submission.mjs: generateMeta, isRelevant,          *)
(*     processResults, together with the polling cycle of common.mjs that  *)
(*     calls them (common.mjs is modelled from the design document);       *)
(* Each piece has its own specification over the shared variables.         *)
(***************************************************************************)
EXTENDS Integers, Sequences, FiniteSets

VARIABLES
    \* ---- _withRetries (reddit.app.mjs)
    promise,      \* state of the promise _withRetries returns
    settledBy,    \* what settled it: "result", "bail" or "mainError"
    opState,      \* the retry operation: "idle", "scheduled", "stopped"
    attempts,     \* number of times apiCall has been invoked
    statuses,     \* HTTP status of each attempt so far, in order
    \* ---- getAllSearchSubredditsResults (reddit.app.mjs)
    searchPc,     \* "idle", "loop", "done"
    after,        \* the local variable `after`
    results,      \* the local array `results`
    calls,        \* the `after` parameter of every searchSubreddits call
    responses,    \* the page (children) each call returned
    \* ---- the polling cycle around processResults (hubspot)
    upstream,     \* per form, the submittedAt of its submissions
    cursor,       \* the stored cursor (db "after")
    pc,           \* "idle", "polling", "emitting"
    startCursor,  \* the `after` argument of the running cycle
    taskPc,       \* per form, the state of its paginate promise
    token,        \* per form, the continuation token of its paginate loop
    fetched,      \* the output list the paginate calls append to
    pending,      \* items of the cycle still to hand to the sink
    emitted,      \* items handed to the sink in this cycle, in order
    outcome,      \* how the last finished cycle ended
    prevOutcome,  \* how the cycle before the running/last one ended
    quietRuns,    \* cycles started since the last upstream arrival (max 2)
    \* ---- generateMeta and the "unique" dedupe (hubspot)
    offered,      \* submissions passed to $emit
    seenIds,      \* ids the dedupe has seen
    delivered     \* submissions that passed the dedupe

retryVars  == <<promise, settledBy, opState, attempts, statuses>>
searchVars == <<searchPc, after, results, calls, responses>>
pollVars   == <<upstream, cursor, pc, startCursor, taskPc, token, fetched,
                pending, emitted, outcome, prevOutcome, quietRuns>>
metaVars   == <<offered, seenIds, delivered>>
vars       == <<retryVars, searchVars, pollVars, metaVars>>

(***************************************************************************)
(* _withRetries                                                            *)
(***************************************************************************)

\* retryOpts.retries: retries after the first attempt.
retries == 5

\* Statuses an attempt of apiCall can end with.
StatusCodes == {200, 408, 429, 500, 401, 400}

\* The array literal of _isRetriableStatusCode.
RetriableList == {408, 429, 500}

\* _isRetriableStatusCode: the body is the expression statement
\* `[408, 429, 500].includes(statusCode);` with no `return`, so the value of
\* includes() is dropped and the method returns undefined, which `!` in
\* _withRetries treats as false.
isRetriableStatusCode(statusCode) ==
    LET included == statusCode \in RetriableList
    IN  FALSE

RetryInit ==
    /\ promise = "none"
    /\ settledBy = "none"
    /\ opState = "idle"
    /\ attempts = 0
    /\ statuses = <<>>

\* reject()/resolve() of an already settled promise change nothing.
Settle(p, to) == IF p = "pending" THEN to ELSE p
SettleBy(p, by, who) == IF p = "pending" THEN who ELSE by

\* _withRetries(apiCall): retry(fn, retryOpts) returns a pending promise and
\* op.attempt schedules the first run of fn.
withRetries ==
    /\ promise = "none"
    /\ promise' = "pending"
    /\ opState' = "scheduled"
    /\ UNCHANGED <<settledBy, attempts, statuses>>
    /\ UNCHANGED <<searchVars, pollVars, metaVars>>

\* An attempt whose apiCall() resolves: fn returns the value and async-retry
\* resolves the promise with it.
attemptSucceeds ==
    /\ opState = "scheduled"
    /\ attempts' = attempts + 1
    /\ statuses' = Append(statuses, 200)
    /\ promise' = Settle(promise, "resolved")
    /\ settledBy' = SettleBy(promise, settledBy, "result")
    /\ opState' = "stopped"
    /\ UNCHANGED <<searchVars, pollVars, metaVars>>

\* An attempt whose apiCall() rejects with err.response.status = s: the catch
\* block calls bail() when the status is not retriable; bail only rejects the
\* promise, the block goes on to `throw err`, and async-retry's onError hands
\* the thrown error (which has no `bail` property) to op.retry, which
\* schedules another attempt while fewer than `retries` retries were made and
\* otherwise rejects with op.mainError().
attemptFails(s) ==
    /\ opState = "scheduled"
    /\ s # 200
    /\ attempts' = attempts + 1
    /\ statuses' = Append(statuses, s)
    /\ LET bailed  == ~isRetriableStatusCode(s)
           p1      == IF bailed THEN Settle(promise, "rejected") ELSE promise
           by1     == IF bailed THEN SettleBy(promise, settledBy, "bail")
                                ELSE settledBy
           again   == attempts < retries
       IN  /\ opState' = IF again THEN "scheduled" ELSE "stopped"
           /\ promise' = IF again THEN p1 ELSE Settle(p1, "rejected")
           /\ settledBy' = IF again THEN by1 ELSE SettleBy(p1, by1, "mainError")
    /\ UNCHANGED <<searchVars, pollVars, metaVars>>

RetryNext ==
    \/ withRetries
    \/ attemptSucceeds
    \/ \E s \in StatusCodes : attemptFails(s)

(***************************************************************************)
(* getAllSearchSubredditsResults                                           *)
(***************************************************************************)

\* Bound: the API answers with a terminating page at the latest on this call.
MaxPages == 3

Null == "<null>"

\* The subreddit records (child.data) the API can return.
Children == {
    [name |-> "t5_a", title |-> "A", display_name |-> "a"],
    [name |-> "t5_b", title |-> "B", display_name |-> "b"],
    [name |-> "",     title |-> "C", display_name |-> "c"] }

\* The `children` arrays a response can carry: none, one or two children.
Pages ==
    {<<>>} \cup {<<c>> : c \in Children}
           \cup {<<c, d>> : c \in Children, d \in Children}

\* A page that ends the loop: no children, or a last child with an empty name.
Terminating(page) ==
    IF Len(page) = 0 THEN TRUE ELSE page[Len(page)].name = ""

\* A version that anchors the next request at the first child.
NextAfterFirst(communities) == communities[1].name

\* after = communities[communities.length - 1].data.name
NextAfter(communities) == communities[Len(communities)].name

\* communities.forEach(... results.push({ title, displayName }))
RECURSIVE Pushed(_, _)
Pushed(res, communities) ==
    IF Len(communities) = 0 THEN res
    ELSE Pushed(Append(res, [title |-> Head(communities).title,
                             displayName |-> Head(communities).display_name]),
                Tail(communities))

SearchInit ==
    /\ searchPc = "idle"
    /\ after = Null
    /\ results = <<>>
    /\ calls = <<>>
    /\ responses = <<>>

\* const results = []; let after = null;
getAllSearchSubredditsResults ==
    /\ searchPc = "idle"
    /\ searchPc' = "loop"
    /\ after' = Null
    /\ results' = <<>>
    /\ UNCHANGED <<calls, responses>>
    /\ UNCHANGED <<retryVars, pollVars, metaVars>>

\* One iteration of the do/while: searchSubreddits({after, ...}) answers with
\* `page`; no children breaks the loop, otherwise `after` moves to the last
\* child's name, every child is pushed and the loop repeats while `after` is
\* truthy.
searchIteration(page) ==
    /\ searchPc = "loop"
    /\ Len(calls) + 1 = MaxPages => Terminating(page)
    /\ calls' = Append(calls, after)
    /\ responses' = Append(responses, page)
    /\ IF Len(page) = 0
       THEN /\ searchPc' = "done"
            /\ UNCHANGED <<after, results>>
       ELSE /\ after' = NextAfter(page)
            /\ results' = Pushed(results, page)
            /\ searchPc' = IF after' # "" THEN "loop" ELSE "done"
    /\ UNCHANGED <<retryVars, pollVars, metaVars>>

SearchNext ==
    \/ getAllSearchSubredditsResults
    \/ \E page \in Pages : searchIteration(page)

(***************************************************************************)
(* The polling cycle: isRelevant, processResults (new-form-submission.mjs) *)
(* and the cycle of common.mjs around them                                 *)
(***************************************************************************)

\* Bound: submittedAt values are 1..MaxTs; the cursor is 0..MaxTs.
MaxTs == 3

\* Bound: items per page (getParams asks for limit: 50).
PageLimit == 2

\* this.forms
Forms == {"f1", "f2"}

NoToken == MaxTs + 1

Max(S) == CHOOSE x \in S : \A y \in S : y <= x

Item(f, t) == [form |-> f, submittedAt |-> t]

\* A version that also accepts an item equal to the cursor.
isRelevantInclusive(result, submittedAfter) ==
    result.submittedAt >= submittedAfter

\* isRelevant(result, submittedAfter)
isRelevant(result, submittedAfter) == result.submittedAt > submittedAfter

\* The n newest of the timestamps S, newest first.
RECURSIVE Newest(_, _)
Newest(S, n) ==
    IF S = {} \/ n = 0 THEN <<>>
    ELSE <<Max(S)>> \o Newest(S \ {Max(S)}, n - 1)

\* The page form f's next fetch returns: at most PageLimit submissions older
\* than the continuation token, newest first.
PageOf(f) ==
    LET older == {t \in upstream[f] : t < token[f]}
        keys  == Newest(older, PageLimit)
    IN  [i \in 1..Len(keys) |-> Item(f, keys[i])]

\* Whether the source has submissions beyond that page (paging.next).
HasNext(f) ==
    Cardinality({t \in upstream[f] : t < token[f]}) > PageLimit

RECURSIVE Relevant(_, _)
Relevant(page, since) ==
    IF Len(page) = 0 THEN <<>>
    ELSE (IF isRelevant(Head(page), since) THEN <<Head(page)>> ELSE <<>>)
         \o Relevant(Tail(page), since)

\* A version that settles only when every promise has settled and never
\* rejects (Promise.allSettled).
PromiseAllSettled(states) ==
    IF \A f \in DOMAIN states : states[f] \in {"fulfilled", "rejected"}
    THEN "fulfilled" ELSE "pending"

\* await Promise.all(...): rejected as soon as one promise is rejected,
\* fulfilled once all are fulfilled.
PromiseAll(states) ==
    IF \E f \in DOMAIN states : states[f] = "rejected" THEN "rejected"
    ELSE IF \A f \in DOMAIN states : states[f] = "fulfilled" THEN "fulfilled"
    ELSE "pending"

\* A version that hands the output list to the sink as it was appended.
Unsorted(s) == s

\* Chronological order of the output list (stable insertion sort on
\* submittedAt).
RECURSIVE InsertByTs(_, _)
InsertByTs(s, x) ==
    IF s = <<>> THEN <<x>>
    ELSE IF x.submittedAt < Head(s).submittedAt THEN <<x>> \o s
    ELSE <<Head(s)>> \o InsertByTs(Tail(s), x)

RECURSIVE SortedFrom(_, _)
SortedFrom(acc, s) ==
    IF s = <<>> THEN acc ELSE SortedFrom(InsertByTs(acc, Head(s)), Tail(s))

SortChronological(s) == SortedFrom(<<>>, s)

Range(s) == {s[i] : i \in 1..Len(s)}

\* The cursor to save: the newest ordering key emitted, unchanged when there
\* is none, and never past a form that failed.
NewCursor(settled, since, out) ==
    IF settled = "rejected" THEN since
    ELSE Max({since} \cup {x.submittedAt : x \in Range(out)})

PollInit ==
    /\ upstream = [f \in Forms |-> {}]
    /\ cursor = 0
    /\ pc = "idle"
    /\ startCursor = 0
    /\ taskPc = [f \in Forms |-> "idle"]
    /\ token = [f \in Forms |-> NoToken]
    /\ fetched = <<>>
    /\ pending = <<>>
    /\ emitted = <<>>
    /\ outcome = "none"
    /\ prevOutcome = "none"
    /\ quietRuns = 0

\* A submission arrives upstream.
newSubmission(f, t) ==
    /\ t \notin upstream[f]
    /\ upstream' = [upstream EXCEPT ![f] = @ \cup {t}]
    /\ quietRuns' = 0
    /\ UNCHANGED <<cursor, pc, startCursor, taskPc, token, fetched, pending,
                   emitted, outcome, prevOutcome>>
    /\ UNCHANGED <<retryVars, searchVars, metaVars>>

\* processResults(after, baseParams): one paginate call per form, all started
\* before the await.
processResults ==
    /\ taskPc' = [f \in Forms |-> "pending"]
    /\ token' = [f \in Forms |-> NoToken]

\* The host starts a cycle: load the cursor and call processResults.
run ==
    /\ pc = "idle"
    /\ pc' = "polling"
    /\ startCursor' = cursor
    /\ processResults
    /\ fetched' = <<>>
    /\ pending' = <<>>
    /\ emitted' = <<>>
    /\ prevOutcome' = outcome
    /\ outcome' = "running"
    /\ quietRuns' = IF quietRuns < 2 THEN quietRuns + 1 ELSE 2
    /\ UNCHANGED <<upstream, cursor>>
    /\ UNCHANGED <<retryVars, searchVars, metaVars>>

\* One page of form f's paginate call arrives: its relevant items go to the
\* output list; the loop ends on a page holding an item that is not newer
\* than the cursor or when there is no continuation token.
paginateFetch(f) ==
    /\ pc = "polling"
    /\ taskPc[f] = "pending"
    /\ PromiseAll(taskPc) = "pending"
    /\ LET page == PageOf(f)
           rel  == Relevant(page, startCursor)
           more == HasNext(f) /\ Len(rel) = Len(page)
       IN  /\ fetched' = fetched \o rel
           /\ taskPc' = [taskPc EXCEPT ![f] = IF more THEN "pending"
                                                      ELSE "fulfilled"]
           /\ token' = [token EXCEPT ![f] = IF more
                                            THEN page[Len(page)].submittedAt
                                            ELSE @]
    /\ UNCHANGED <<upstream, cursor, pc, startCursor, pending, emitted,
                   outcome, prevOutcome, quietRuns>>
    /\ UNCHANGED <<retryVars, searchVars, metaVars>>

\* A fetch of form f's paginate call fails for good: its promise rejects.
paginateFails(f) ==
    /\ pc = "polling"
    /\ taskPc[f] = "pending"
    /\ PromiseAll(taskPc) = "pending"
    /\ taskPc' = [taskPc EXCEPT ![f] = "rejected"]
    /\ UNCHANGED <<upstream, cursor, pc, startCursor, token, fetched, pending,
                   emitted, outcome, prevOutcome, quietRuns>>
    /\ UNCHANGED <<retryVars, searchVars, metaVars>>

\* await processResults(...) settles: the cycle orders what was fetched and
\* starts handing it to the sink.
processResultsSettled ==
    /\ pc = "polling"
    /\ PromiseAll(taskPc) # "pending"
    /\ pc' = "emitting"
    /\ pending' = SortChronological(fetched)
    /\ outcome' = IF PromiseAll(taskPc) = "rejected" THEN "degraded" ELSE "ok"
    /\ UNCHANGED <<upstream, cursor, startCursor, taskPc, token, fetched,
                   emitted, prevOutcome, quietRuns>>
    /\ UNCHANGED <<retryVars, searchVars, metaVars>>

\* emit(item): the next item is handed to the sink.
emit ==
    /\ pc = "emitting"
    /\ pending # <<>>
    /\ emitted' = Append(emitted, Head(pending))
    /\ pending' = Tail(pending)
    /\ UNCHANGED <<upstream, cursor, pc, startCursor, taskPc, token, fetched,
                   outcome, prevOutcome, quietRuns>>
    /\ UNCHANGED <<retryVars, searchVars, metaVars>>

\* saveCursor: after the last emission the cursor is stored and the cycle
\* ends.
saveCursor ==
    /\ pc = "emitting"
    /\ pending = <<>>
    /\ cursor' = NewCursor(PromiseAll(taskPc), startCursor, emitted)
    /\ pc' = "idle"
    /\ UNCHANGED <<upstream, startCursor, taskPc, token, fetched, pending,
                   emitted, outcome, prevOutcome, quietRuns>>
    /\ UNCHANGED <<retryVars, searchVars, metaVars>>

\* The host cancels the running cycle (timeout): what was handed to the sink
\* stays delivered, nothing else happens.
cancel ==
    /\ pc \in {"polling", "emitting"}
    /\ pc' = "idle"
    /\ outcome' = "cancelled"
    /\ UNCHANGED <<upstream, cursor, startCursor, taskPc, token, fetched,
                   pending, emitted, prevOutcome, quietRuns>>
    /\ UNCHANGED <<retryVars, searchVars, metaVars>>

PollNext ==
    \/ \E f \in Forms, t \in 1..MaxTs : newSubmission(f, t)
    \/ run
    \/ \E f \in Forms : paginateFetch(f)
    \/ \E f \in Forms : paginateFails(f)
    \/ processResultsSettled
    \/ emit
    \/ saveCursor
    \/ cancel

(***************************************************************************)
(* generateMeta and the "unique" dedupe                                    *)
(***************************************************************************)

PageUrls == {"p", "p1", "q"}

SubmittedAts == {2, 3, 12}

\* The form submissions (result objects) handed to emitEvent.
Submissions == [pageUrl : PageUrls, submittedAt : SubmittedAts]

Digit(d) ==
    CASE d = 0 -> "0" [] d = 1 -> "1" [] d = 2 -> "2" [] d = 3 -> "3"
      [] d = 4 -> "4" [] d = 5 -> "5" [] d = 6 -> "6" [] d = 7 -> "7"
      [] d = 8 -> "8" [] d = 9 -> "9"

\* The decimal rendering `${ts}` of a non-negative integer.
RECURSIVE NumToStr(_)
NumToStr(n) == IF n < 10 THEN Digit(n) ELSE NumToStr(n \div 10) \o Digit(n % 10)

\* generateMeta(result): id is `${pageUrl}${ts}`, ts is submittedAt (the
\* summary, a locale rendering of the date, is left out).
generateMeta(result) ==
    [id |-> result.pageUrl \o NumToStr(result.submittedAt),
     ts |-> result.submittedAt]

\* dedupe: "unique": an event whose id was already seen is dropped.
IsDuplicate(meta) == meta.id \in seenIds

MetaInit ==
    /\ offered = {}
    /\ seenIds = {}
    /\ delivered = {}

\* this.$emit(result, this.generateMeta(result)) for a submission not yet
\* emitted, followed by the dedupe.
emitEvent(result) ==
    /\ result \notin offered
    /\ offered' = offered \cup {result}
    /\ LET meta == generateMeta(result)
       IN  IF IsDuplicate(meta)
           THEN UNCHANGED <<seenIds, delivered>>
           ELSE /\ seenIds' = seenIds \cup {meta.id}
                /\ delivered' = delivered \cup {result}
    /\ UNCHANGED <<retryVars, searchVars, pollVars>>

MetaNext == \E result \in Submissions : emitEvent(result)

(***************************************************************************)
(* Specifications                                                          *)
(***************************************************************************)

Init == RetryInit /\ SearchInit /\ PollInit /\ MetaInit

RetrySpec == Init /\ [][RetryNext]_vars

SearchSpec == Init /\ [][SearchNext]_vars

\* The loop's continuation runs once the awaited response has arrived.
SearchFairSpec == SearchSpec /\ WF_vars(SearchNext)

PollSpec == Init /\ [][PollNext]_vars

MetaSpec == Init /\ [][MetaNext]_vars

(***************************************************************************)
(* Properties                                                              *)
(***************************************************************************)

\* The statuses the retry policy calls transient.
Transient == {408, 429, 500}

OnlyTransientBefore(n) == \A i \in 1..(n - 1) : statuses[i] \in Transient

\* C1: a transient failure (408, 429, 500) does not fail the operation: the
\* call is attempted again until an attempt succeeds, whose result is
\* returned, or 1 + 5 attempts were made, and only then is the error
\* surfaced; apiCall is never invoked more than 6 times.
C1_TransientFailuresAreRetried ==
    /\ attempts <= retries + 1
    /\ (promise = "rejected" /\ OnlyTransientBefore(Len(statuses) + 1))
          => attempts = retries + 1
    /\ (Len(statuses) > 0 /\ statuses[Len(statuses)] = 200
          /\ OnlyTransientBefore(Len(statuses)))
          => promise = "resolved"

\* C6: after an attempt that failed with a non-retriable status (401, 400)
\* apiCall is not invoked again, and the error is surfaced.
C6_NonRetriableAbortsAtOnce ==
    \A i \in 1..Len(statuses) :
        statuses[i] \notin (Transient \cup {200})
            => i = Len(statuses) /\ promise = "rejected"

\* Every child of every fetched page, in page order then in-page order.
RECURSIVE Flattened(_)
Flattened(pages) ==
    IF Len(pages) = 0 THEN <<>>
    ELSE Flattened(SubSeq(pages, 1, Len(pages) - 1))
         \o [i \in 1..Len(pages[Len(pages)]) |->
                [title |-> pages[Len(pages)][i].title,
                 displayName |-> pages[Len(pages)][i].display_name]]

C9_Pagination ==
    /\ Len(calls) = Len(responses)
    /\ \A i \in 1..Len(calls) :
          calls[i] = IF i = 1 THEN Null
                     ELSE responses[i - 1][Len(responses[i - 1])].name
    /\ \A i \in 1..(Len(responses) - 1) : ~Terminating(responses[i])
    /\ searchPc = "done" =>
          /\ Len(responses) > 0
          /\ Terminating(responses[Len(responses)])
          /\ results = Flattened(responses)

\* C9: getAllSearchSubredditsResults terminates once the API returns a page
\* with no children or with a last child whose name is empty; every request
\* after the first carries the name of the preceding page's last child as
\* `after`; the result is every child of every fetched page exactly once, in
\* page order and then in-page order.
C9_SearchTerminatesWithAllChildren ==
    [](C9_Pagination) /\ <>(searchPc = "done")

\* C9 witness: a search over three pages has finished with its results.
C9_Witness ==
    /\ searchPc = "done"
    /\ Len(responses) = 3
    /\ Len(results) >= 4

\* C10: two submissions that differ in pageUrl or submittedAt get different
\* ids, so the dedupe drops no submission as a duplicate of another.
C10_DistinctSubmissionsDistinctIds ==
    /\ \A r1 \in offered, r2 \in offered :
          r1 # r2 => generateMeta(r1).id # generateMeta(r2).id
    /\ delivered = offered

\* C2: when a form's fetch failed, the failure is reported (the cycle is not
\* recorded as a plain success) and, once the cycle has run to its end, every
\* item fetched for the other forms was emitted.
C2_SiblingsEmittedFailureReported ==
    (\E f \in Forms : taskPc[f] = "rejected") =>
        /\ (pc = "emitting" \/ (pc = "idle" /\ outcome # "cancelled"))
              => outcome = "degraded"
        /\ (pc = "idle" /\ outcome # "cancelled")
              => Range(fetched) \subseteq Range(emitted)

\* C2 witness: a cycle ended with one form failed and the sibling's fetched
\* items emitted.
C2_Witness ==
    /\ pc = "idle"
    /\ outcome = "degraded"
    /\ \E f \in Forms, g \in Forms :
          /\ taskPc[f] = "rejected"
          /\ taskPc[g] # "rejected"
          /\ \E x \in Range(emitted) : x.form = g

C4_OnlyNewerThanCursor ==
    \A x \in Range(emitted) \cup Range(pending) : x.submittedAt > startCursor

\* C4 witness: a cycle that started with a cursor equal to the submittedAt of
\* an upstream item has emitted something.
C4_Witness ==
    /\ startCursor > 0
    /\ \E f \in Forms : startCursor \in upstream[f]
    /\ emitted # <<>>
    /\ pending = <<>>

\* C5: the stored cursor changes only when every emission of the cycle has
\* been handed to the sink, and a cycle that ends cancelled or with a failed
\* form leaves the cursor at its value from the start of the cycle.
C5_CursorOnlyAfterEmissions ==
    [][ /\ cursor' # cursor =>
              /\ pc = "emitting"
              /\ pending = <<>>
              /\ Range(fetched) \subseteq Range(emitted)
        /\ (pc # "idle" /\ pc' = "idle"
              /\ (outcome' = "cancelled"
                    \/ \E f \in Forms : taskPc[f] = "rejected"))
              => cursor' = startCursor ]_vars

\* C5 witness: a cycle has emitted two items and then moved the cursor.
C5_Witness ==
    /\ pc = "idle"
    /\ outcome = "ok"
    /\ Len(emitted) >= 2
    /\ cursor > startCursor

\* C7: after a cycle in which a form failed, no item of that form newer than
\* the cycle's starting cursor is at or below the stored cursor.
C7_CursorNotPastFailedForm ==
    pc = "idle" =>
        \A f \in Forms :
            taskPc[f] = "rejected" =>
                \A t \in upstream[f] : t > startCursor => t > cursor

\* C7 witness: a cycle ended with a failed form holding an unseen item while
\* a newer item of a sibling was emitted.
C7_Witness ==
    /\ pc = "idle"
    /\ outcome = "degraded"
    /\ \E f \in Forms :
          /\ taskPc[f] = "rejected"
          /\ \E t \in upstream[f], x \in Range(emitted) :
                t > startCursor /\ x.submittedAt >= t

====
